---------------------------- MODULE Spec2Model ----------------------------
(***************************************************************************)
(* Model of the easybets API: the request handlers of src/app.py, the      *)
(* scraper scrape_sportpesa with its two fetch strategies and its          *)
(* positional aligner, the mock fallback, and the heuristic predictor of   *)
(* src/ml_predictions.py.                                                  *)
(*                                                                         *)
(* Text is a sequence of one-character strings, so that substring search,  *)
(* case folding, the timestamp pattern and number parsing are computed     *)
(* character by character as the code's library calls do.                  *)
(*                                                                         *)
(* Numbers: an odds value is an integer count of hundredths (2.45 is 245); *)
(* a probability inside the predictor is an integer count of 1/10000       *)
(* (fixed point, divisions truncate); a reported probability is a count of *)
(* thousandths and a confidence a count of tenths of a percent.            *)
(*                                                                         *)
(* src/app.py line 181 is an except clause at the indentation of the       *)
(* function body with no try of its own.  The model reads it as the        *)
(* handler of a try that encloses lines 110-179; since the browser block   *)
(* (lines 86-108) catches every exception itself, every placement of the   *)
(* missing try at that indentation gives the same behaviour.               *)
(***************************************************************************)
EXTENDS Integers, Sequences, FiniteSets, TLC

VARIABLES
    SELENIUM_AVAILABLE, \* app.py 12-19: did the selenium imports succeed
    pc,                 \* position of the request being served
    endpoint,           \* which route the request hit
    match_id,           \* the <match_id> path segment (text), <<>> if none
    use_selenium,       \* local of scrape_sportpesa
    driver,             \* the Chrome driver process: "none", "running", "quit"
    fetched,            \* how the page was obtained: "none", "browser", "http", "http_failed"
    soup,               \* the parsed page: the texts each selector yields
    lists,              \* the lists scrape_sportpesa extracts from soup
    odds_data,          \* what scrape_sportpesa returned to the handler
    idx,                \* loop position of get_predictions
    response,           \* the HTTP response of the request
    raw_times,          \* timestamp filter: candidate strings
    match_times,        \* timestamp filter: kept strings
    tpc,                \* timestamp filter: position
    pred_in,            \* predictor: its arguments
    prediction,         \* predictor: its result
    ppc                 \* predictor: position

vars == <<SELENIUM_AVAILABLE, pc, endpoint, match_id, use_selenium, driver,
          fetched, soup, lists, odds_data, idx, response,
          raw_times, match_times, tpc, pred_in, prediction, ppc>>

reqVars == <<SELENIUM_AVAILABLE, pc, endpoint, match_id, use_selenium, driver,
             fetched, soup, lists, odds_data, idx, response>>
timeVars == <<raw_times, match_times, tpc>>
predVars == <<pred_in, prediction, ppc>>

-----------------------------------------------------------------------------
(* Bounds *)

\* rows of matches the fetched page may render
MaxRows == 2
\* candidate strings handed to the timestamp filter in one run
MaxCands == 2
\* the interval of random.uniform is cut into this many steps
DrawSteps == 4

-----------------------------------------------------------------------------
(* Text *)

Digits == <<"0","1","2","3","4","5","6","7","8","9">>
UpperCase == <<"A","B","C","D","E","F","G","H","I","J","K","L","M",
               "N","O","P","Q","R","S","T","U","V","W","X","Y","Z">>
LowerCase == <<"a","b","c","d","e","f","g","h","i","j","k","l","m",
               "n","o","p","q","r","s","t","u","v","w","x","y","z">>

IsDigit(c) == \E k \in 1..10 : Digits[k] = c
DigitVal(c) == (CHOOSE k \in 1..10 : Digits[k] = c) - 1
DigitChar(k) == Digits[(k % 10) + 1]

\* str.lower() on one character
LowerChar(c) ==
    IF \E k \in 1..26 : UpperCase[k] = c
    THEN LowerCase[CHOOSE k \in 1..26 : UpperCase[k] = c]
    ELSE c
\* str.lower()
Lower(s) == [k \in 1..Len(s) |-> LowerChar(s[k])]

\* Python's "needle in hay" on str
Contains(hay, needle) ==
    \E off \in 0..(Len(hay) - Len(needle)) :
        SubSeq(hay, off + 1, off + Len(needle)) = needle

\* str.isdigit(): non-empty and every character a digit
IsDigitStr(s) == Len(s) > 0 /\ \A k \in 1..Len(s) : IsDigit(s[k])

\* str.replace('.', '', 1): drop the first dot
DropFirstDot(s) ==
    IF \E k \in 1..Len(s) : s[k] = "."
    THEN LET p == CHOOSE k \in 1..Len(s) :
                      s[k] = "." /\ \A j \in 1..(k - 1) : s[j] # "."
         IN  SubSeq(s, 1, p - 1) \o SubSeq(s, p + 1, Len(s))
    ELSE s

RECURSIVE DigitsValue(_)
\* the number a digit string denotes
DigitsValue(s) ==
    IF Len(s) = 0 THEN 0
    ELSE 10 * DigitsValue(SubSeq(s, 1, Len(s) - 1)) + DigitVal(s[Len(s)])

\* an optional leading sign, as int() and float() accept it
Unsigned(s) == IF Len(s) > 0 /\ s[1] \in {"-", "+"} THEN Tail(s) ELSE s
SignOf(s) == IF Len(s) > 0 /\ s[1] = "-" THEN -1 ELSE 1

\* int(s) succeeds: optional sign, then digits only
IntParses(s) == IsDigitStr(Unsigned(s))
IntValue(s) == SignOf(s) * DigitsValue(Unsigned(s))

\* float(s) succeeds: optional sign, digits with at most one dot, at least
\* one digit (the alphabet of the model has no exponent, inf or nan)
FloatParses(s) == IsDigitStr(DropFirstDot(Unsigned(s)))
\* float(s) in hundredths, for texts with at most two decimals
FloatValue(s) ==
    LET u == Unsigned(s)
        hasDot == \E k \in 1..Len(u) : u[k] = "."
        p == IF hasDot THEN CHOOSE k \in 1..Len(u) : u[k] = "." ELSE Len(u) + 1
        whole == SubSeq(u, 1, p - 1)
        frac == SubSeq(u, p + 1, Len(u))
        frac2 == SubSeq(frac \o <<"0", "0">>, 1, 2)
    IN  SignOf(s) * (100 * DigitsValue(whole) + DigitsValue(frac2))

\* an optional value: None is the empty tuple, a present value v is <<v>>
None == <<>>
Some(v) == <<v>>

-----------------------------------------------------------------------------
(* Heuristic predictor: src/ml_predictions.py *)

\* names used by the mock data, the pages and the predictor's inputs
ManchesterUnited == <<"M","a","n","c","h","e","s","t","e","r"," ","U","n","i","t","e","d">>
Liverpool == <<"L","i","v","e","r","p","o","o","l">>
Arsenal == <<"A","r","s","e","n","a","l">>
Chelsea == <<"C","h","e","l","s","e","a">>
Barcelona == <<"B","a","r","c","e","l","o","n","a">>
RealMadrid == <<"R","e","a","l"," ","M","a","d","r","i","d">>
Everton == <<"E","v","e","r","t","o","n">>
Wolves == <<"W","o","l","v","e","s">>
Tottenham == <<"T","o","t","t","e","n","h","a","m">>
GorMahia == <<"G","o","r"," ","M","a","h","i","a">>

\* the strength table, in 1/10000
team_strengths == {
      <<<<"M","a","n","c","h","e","s","t","e","r"," ","U","n","i","t","e","d">>, 8500>>,
      <<<<"M","a","n","c","h","e","s","t","e","r"," ","C","i","t","y">>, 9000>>,
      <<<<"C","h","e","l","s","e","a">>, 8500>>,
      <<<<"A","r","s","e","n","a","l">>, 8200>>,
      <<<<"L","i","v","e","r","p","o","o","l">>, 8700>>,
      <<<<"T","o","t","t","e","n","h","a","m">>, 8000>>,
      <<<<"L","e","i","c","e","s","t","e","r">>, 7500>>,
      <<<<"W","o","l","v","e","s">>, 7000>>,
      <<<<"E","v","e","r","t","o","n">>, 7200>>,
      <<<<"W","e","s","t"," ","H","a","m">>, 7100>>,
      <<<<"B","a","r","c","e","l","o","n","a">>, 8900>>,
      <<<<"R","e","a","l"," ","M","a","d","r","i","d">>, 9000>>,
      <<<<"A","t","l","e","t","i","c","o"," ","M","a","d","r","i","d">>, 8600>>,
      <<<<"S","e","v","i","l","l","a">>, 7800>>,
      <<<<"V","a","l","e","n","c","i","a">>, 7500>>,
      <<<<"U","N","K","N","O","W","N">>, 5000>> }


\* dict.get(name, default)
StrengthOf(name) ==
    IF \E e \in team_strengths : e[1] = name
    THEN (CHOOSE e \in team_strengths : e[1] = name)[2]
    ELSE (CHOOSE e \in team_strengths : e[1] = <<"U","N","K","N","O","W","N">>)[2]

\* 1.0 in the predictor's fixed point
One == 100 * 100
home_advantage == 1000

Max2(a, b) == IF a >= b THEN a ELSE b
Min2(a, b) == IF a <= b THEN a ELSE b
Abs(a) == IF a < 0 THEN -a ELSE a

\* round(x / d) to the nearest integer, ties to even, for x >= 0
RoundDiv(x, d) ==
    LET q == x \div d
        r2 == 2 * (x % d)
    IN  IF r2 > d THEN q + 1
        ELSE IF r2 < d THEN q
        ELSE IF q % 2 = 0 THEN q ELSE q + 1

Outcomes == <<"home_win", "draw", "away_win">>
OddsKeys == {"home", "draw", "away"}

\* line 71: odds and all(odds.get(k) is not None ...); the odds argument
\* is None or Some(dict)
OddsUsable(odds) == odds # None /\ \A k \in OddsKeys : odds[1][k] # None

\* a key of later position wins a tie
most_likely_last(probabilities) ==
    LET b1 == "home_win"
        b2 == IF probabilities["draw"] >= probabilities[b1] THEN "draw" ELSE b1
    IN  IF probabilities["away_win"] >= probabilities[b2] THEN "away_win" ELSE b2

\* line 117: max(probabilities, key=probabilities.get) walks the keys in
\* insertion order and keeps the first of the largest
most_likely(probabilities) ==
    LET b1 == "home_win"
        b2 == IF probabilities["draw"] > probabilities[b1] THEN "draw" ELSE b1
    IN  IF probabilities["away_win"] > probabilities[b2] THEN "away_win" ELSE b2

\* lines 123-127
outcome_text(home_team, away_team) ==
    [o \in {"home_win", "draw", "away_win"} |->
        IF o = "home_win" THEN home_team \o <<" ","W","i","n">>
        ELSE IF o = "draw" THEN <<"D","r","a","w">>
        ELSE away_team \o <<" ","W","i","n">>]

\* lines 73-75 divide by each odds value
OddsDivideByZero(odds) == OddsUsable(odds) /\ \E k \in OddsKeys : odds[1][k][1] = 0

\* predict_match_outcome, with the three random.uniform draws as argument
\* r = <<home, draw, away>> in 1/10000.  Defined when no division raises.
predict_match_outcome(home_team, away_team, odds, r) ==
    LET home_strength == StrengthOf(home_team)
        away_strength == StrengthOf(away_team)
        bh0 == home_strength + home_advantage
        ba0 == away_strength
        max_prob == Max2(bh0, ba0)
        base_home_prob == IF max_prob > One THEN (bh0 * One) \div max_prob ELSE bh0
        base_away_prob == IF max_prob > One THEN (ba0 * One) \div max_prob ELSE ba0
        draw_factor == One - Abs(base_home_prob - base_away_prob)
        useOdds == OddsUsable(odds)
        \* 1 / odds, odds in hundredths
        oh0 == IF useOdds THEN (One * 100) \div odds[1]["home"][1] ELSE 0
        od0 == IF useOdds THEN (One * 100) \div odds[1]["draw"][1] ELSE 0
        oa0 == IF useOdds THEN (One * 100) \div odds[1]["away"][1] ELSE 0
        total_odds_prob == oh0 + od0 + oa0
        odds_home_prob == IF useOdds THEN (oh0 * One) \div total_odds_prob ELSE 0
        odds_draw_prob == IF useOdds THEN (od0 * One) \div total_odds_prob ELSE 0
        odds_away_prob == IF useOdds THEN (oa0 * One) \div total_odds_prob ELSE 0
        h1 == IF useOdds THEN (7 * base_home_prob + 3 * odds_home_prob) \div 10
              ELSE base_home_prob
        d1 == IF useOdds THEN (7 * (draw_factor \div 2) + 3 * odds_draw_prob) \div 10
              ELSE draw_factor \div 2
        a1 == IF useOdds THEN (7 * base_away_prob + 3 * odds_away_prob) \div 10
              ELSE base_away_prob
        total1 == h1 + d1 + a1
        h2 == (h1 * One) \div total1
        d2 == (d1 * One) \div total1
        a2 == (a1 * One) \div total1
        h3 == Max2(0, Min2(One, h2 + r[1]))
        d3 == Max2(0, Min2(One, d2 + r[2]))
        a3 == Max2(0, Min2(One, a2 + r[3]))
        total3 == h3 + d3 + a3
        home_win_prob == (h3 * One) \div total3
        draw_prob == (d3 * One) \div total3
        away_win_prob == (a3 * One) \div total3
        \* round(p, 3): thousandths
        probabilities == [o \in {"home_win", "draw", "away_win"} |->
                            IF o = "home_win" THEN RoundDiv(home_win_prob, 10)
                            ELSE IF o = "draw" THEN RoundDiv(draw_prob, 10)
                            ELSE RoundDiv(away_win_prob, 10)]
        ml == most_likely(probabilities)
        confidence == probabilities[ml]
    IN  [most_likely_outcome |-> ml,
         outcome_text |-> outcome_text(home_team, away_team)[ml],
         \* round(confidence * 100, 1): tenths of a percent
         confidence |-> RoundDiv(confidence * 100, 100),
         probabilities |-> probabilities]

-----------------------------------------------------------------------------
(* The fetched page: what each CSS selector of scrape_sportpesa yields *)

\* the data-qa suffixes of lines 140-148, in source order
Markets == <<"1x", "x2", "12", "over", "under", "yes", "no">>
MarketSet == {Markets[k] : k \in 1..Len(Markets)}
MarketIndex(m) == CHOOSE k \in 1..Len(Markets) : Markets[k] = m

RECURSIVE Flat(_)
\* concatenation of a sequence of sequences
Flat(ss) == IF ss = <<>> THEN <<>> ELSE Head(ss) \o Flat(Tail(ss))

TeamPool == << <<Everton, Arsenal>>, <<GorMahia, Chelsea>>, <<Wolves, Tottenham>> >>
RowTeams(r) == TeamPool[(r % Len(TeamPool)) + 1]
RowTime(r) == <<"2", DigitChar(r), "/", "0", "6", "/", "2", "5", " ", "-", " ",
                "2", "0", ":", "0", "0">>
FtToken(r, c) == <<DigitChar(r + 2), ".", DigitChar(c + 1), "0">>
MktToken(m, r) == <<"1", ".", DigitChar(MarketIndex(m)), DigitChar(r + 1)>>

\* what may be wrong with one cell of an otherwise regular page
NoDefect == [kind |-> "none", row |-> 0, col |-> 0, mkt |-> "", how |-> ""]
Defects(R) ==
    {NoDefect}
    \cup {[kind |-> "odd_team", row |-> R - 1, col |-> 0, mkt |-> "", how |-> "missing"] :
            x \in IF R > 0 THEN {0} ELSE {}}
    \cup {[kind |-> "time", row |-> r, col |-> 0, mkt |-> "", how |-> h] :
            r \in 0..(R - 1), h \in {"missing", "junk", "trailing"}}
    \cup {[kind |-> "ft", row |-> r, col |-> c, mkt |-> "", how |-> h] :
            r \in 0..(R - 1), c \in 0..2, h \in {"missing", "zero", "dash"}}
    \cup {[kind |-> "mkt", row |-> r, col |-> 0, mkt |-> m, how |-> h] :
            r \in 0..(R - 1), m \in MarketSet, h \in {"missing", "dash"}}

\* the text of one cell under a defect: no element, or one element
Cell(text, hit, how) ==
    IF ~hit THEN <<text>>
    ELSE IF how = "missing" THEN <<>>
    ELSE IF how = "junk" THEN << <<"T", "B", "D">> >>
    ELSE IF how = "trailing" THEN <<text \o <<" ", "E", "T">>>>
    ELSE IF how = "zero" THEN << <<"0">> >>
    ELSE << <<"-">> >>

\* a page of R rows with defect d
Page(R, d) ==
    [bound |-> TRUE,
     \* div.event-team.ng-binding
     teams |-> LET all == Flat([k \in 1..R |-> RowTeams(k - 1)])
               IN  IF d.kind = "odd_team" THEN SubSeq(all, 1, Len(all) - 1) ELSE all,
     \* span.ng-binding: a status label, then the kick-off times
     spans |-> << <<"L", "i", "v", "e">> >> \o
               Flat([k \in 1..R |->
                       Cell(RowTime(k - 1), d.kind = "time" /\ d.row = k - 1, d.how)]),
     \* div.event-selection > div.ng-binding
     selections |-> Flat([k \in 1..(3 * R) |->
                       Cell(FtToken((k - 1) \div 3, (k - 1) % 3),
                            d.kind = "ft" /\ d.row = (k - 1) \div 3 /\ d.col = (k - 1) % 3,
                            d.how)]),
     \* div[data-qa="prematch-event-selections-<m>"] > div.ng-binding
     mkt |-> [m \in MarketSet |->
                Flat([k \in 1..R |->
                       Cell(MktToken(m, k - 1),
                            d.kind = "mkt" /\ d.mkt = m /\ d.row = k - 1, d.how)])]]

Pages == UNION {{Page(R, d) : d \in Defects(R)} : R \in 0..MaxRows}

NoSoup == [bound |-> FALSE, teams |-> <<>>, spans |-> <<>>, selections |-> <<>>,
           mkt |-> [m \in MarketSet |-> <<>>]]

-----------------------------------------------------------------------------
(* Extraction and alignment: src/app.py lines 118-179 *)

\* the pattern of line 125, one character class per position
TimePattern == <<"d", "d", "/", "d", "d", "/", "d", "d", " ", "-", " ",
                 "d", "d", ":", "d", "d">>
ClassMatches(cls, c) == IF cls = "d" THEN IsDigit(c) ELSE c = cls

\* line 125: re.match anchors the pattern at the start of the string only
re_match_time(t) ==
    /\ Len(t) >= Len(TimePattern)
    /\ \A k \in 1..Len(TimePattern) : ClassMatches(TimePattern[k], t[k])

\* line 125: the list comprehension keeps the matching strings in order
filter_times(raw) == SelectSeq(raw, re_match_time)

\* line 135: text.replace('.', '', 1).isdigit()
NumericToken(t) == IsDigitStr(DropFirstDot(t))

\* lines 120-121: range(0, len(teams) - 1, 2)
PairStarts(teams) == {i \in 0..(Len(teams) - 2) : i % 2 = 0}
team_pairs(teams) ==
    [k \in 1..Cardinality(PairStarts(teams)) |-> <<teams[2 * k - 1], teams[2 * k]>>]
match_label(pair) == pair[1] \o <<" ", "v", "s", " ">> \o pair[2]

\* line 137: slices of three, the last one possibly shorter
full_time_grouped(raw) ==
    [g \in 1..((Len(raw) + 2) \div 3) |->
        SubSeq(raw, 3 * (g - 1) + 1, Min2(3 * g, Len(raw)))]

NoLists == [bound |-> FALSE, team_pairs |-> <<>>, matches |-> <<>>,
            match_times |-> <<>>, full_time_grouped |-> <<>>,
            mkt |-> [m \in MarketSet |-> <<>>]]

\* lines 119-148
ExtractLists(page) ==
    [bound |-> TRUE,
     team_pairs |-> team_pairs(page.teams),
     matches |-> [k \in 1..Len(team_pairs(page.teams)) |->
                    match_label(team_pairs(page.teams)[k])],
     match_times |-> filter_times(page.spans),
     full_time_grouped |-> full_time_grouped(SelectSeq(page.selections, NumericToken)),
     mkt |-> page.mkt]

Min3(a, b, c) == Min2(a, Min2(b, c))
\* line 152
ResultLen(l) == Min3(Len(l.matches), Len(l.full_time_grouped), Len(l.match_times))

\* the texts float() is applied to while record i (from 1) is built
FloatArgs(l, i) ==
    {l.full_time_grouped[i][c] : c \in 1..Len(l.full_time_grouped[i])}
    \cup {l.mkt[m][i] : m \in {x \in MarketSet : i <= Len(l.mkt[x])}}

\* some float() of lines 159-174 raises ValueError
BuildRaises(l) ==
    \E i \in 1..ResultLen(l) : \E t \in FloatArgs(l, i) : ~FloatParses(t)

\* lines 164-174: float(lst[i]) if i < len(lst) else None
OddsField(lst, i) == IF i <= Len(lst) THEN Some(FloatValue(lst[i])) ELSE None
\* lines 159-161
FtField(grouped, i, c) ==
    IF i <= Len(grouped) /\ Len(grouped[i]) >= c
    THEN Some(FloatValue(grouped[i][c])) ELSE None

\* lines 153-176: record i (from 1); its id is the Python index
match_data(l, i) ==
    [id |-> i - 1,
     match |-> l.matches[i],
     teams |-> l.team_pairs[i],
     time |-> IF i <= Len(l.match_times) THEN l.match_times[i] ELSE <<>>,
     full_time_odds |-> [home |-> FtField(l.full_time_grouped, i, 1),
                         draw |-> FtField(l.full_time_grouped, i, 2),
                         away |-> FtField(l.full_time_grouped, i, 3)],
     double_chance |-> [k \in {"1X", "X2", "12"} |->
                          IF k = "1X" THEN OddsField(l.mkt["1x"], i)
                          ELSE IF k = "X2" THEN OddsField(l.mkt["x2"], i)
                          ELSE OddsField(l.mkt["12"], i)],
     over_under |-> [over |-> OddsField(l.mkt["over"], i),
                     under |-> OddsField(l.mkt["under"], i)],
     btts |-> [yes |-> OddsField(l.mkt["yes"], i),
               no |-> OddsField(l.mkt["no"], i)]]

\* lines 151-179
build_results(l) == [i \in 1..ResultLen(l) |-> match_data(l, i)]

MockMatch(i, home, away, time, ft, dc, ou, bt) ==
    [id |-> i, match |-> match_label(<<home, away>>), teams |-> <<home, away>>,
     time |-> time,
     full_time_odds |-> [home |-> Some(ft[1]), draw |-> Some(ft[2]), away |-> Some(ft[3])],
     double_chance |-> [k \in {"1X", "X2", "12"} |->
                          IF k = "1X" THEN Some(dc[1])
                          ELSE IF k = "X2" THEN Some(dc[2]) ELSE Some(dc[3])],
     over_under |-> [over |-> Some(ou[1]), under |-> Some(ou[2])],
     btts |-> [yes |-> Some(bt[1]), no |-> Some(bt[2])]]

\* lines 186-220
generate_mock_data ==
    << MockMatch(0, ManchesterUnited, Liverpool,
                 <<"2","2","/","0","6","/","2","5"," ","-"," ","2","0",":","0","0">>,
                 <<245, 340, 285>>, <<145, 150, 130>>, <<185, 195>>, <<170, 210>>),
       MockMatch(1, Arsenal, Chelsea,
                 <<"2","3","/","0","6","/","2","5"," ","-"," ","1","5",":","3","0">>,
                 <<220, 320, 340>>, <<135, 165, 140>>, <<190, 190>>, <<175, 205>>),
       MockMatch(2, Barcelona, RealMadrid,
                 <<"2","4","/","0","6","/","2","5"," ","-"," ","2","1",":","0","0">>,
                 <<230, 350, 290>>, <<140, 155, 130>>, <<180, 200>>, <<165, 220>>) >>

\* what a Python value of scrape_sportpesa's caller is: a list, or None
ListValue(v) == [tag |-> "list", val |-> v]
NoneValue == [tag |-> "None", val |-> <<>>]
Unset == [tag |-> "unset", val |-> <<>>]

\* an exception handler that hands back an empty list
scrape_except_empty == ListValue(<<>>)

\* lines 181-184: the except clause returns the mock data
scrape_except == ListValue(generate_mock_data)

-----------------------------------------------------------------------------
(* Request handlers: src/app.py lines 29-75 *)

Resp(status, kind, data, error) ==
    [status |-> status, kind |-> kind, data |-> data, error |-> error]
NoResponse == Resp(0, "none", <<>>, "")
NotFound == Resp(404, "error", <<>>, "Match not found")
ServerError(msg) == Resp(500, "error", <<>>, msg)

\* the path segments the model sends to /api/odds/<match_id>
MatchIds ==
    { <<"0">>, <<"1">>, <<"2">>, <<"7">>, <<"-","1">>, <<"+","1">>,
      <<"a","r","s","e","n","a","l">>, <<"C","H","E","L","S","E","A">>,
      <<"e">>, <<"V","S">>, <<"v","e","r","p">>,
      <<"n","o","n","e","x","i","s","t","e","n","t">> }

Endpoints == {"odds", "match", "predictions"}

\* line 53 without the two lower() calls
name_matches_exact(id, m) == Contains(m.match, id)

\* line 53: match_id.lower() in match["match"].lower()
name_matches(id, m) == Contains(Lower(m.match), Lower(id))

\* lines 52-55: the first match of the list whose label contains the text
find_by_name(list, id) ==
    IF \E k \in 1..Len(list) : name_matches(id, list[k])
    THEN LET k == CHOOSE k \in 1..Len(list) :
                      /\ name_matches(id, list[k])
                      /\ \A j \in 1..(k - 1) : ~name_matches(id, list[j])
         IN  Resp(200, "match", <<list[k]>>, "")
    ELSE NotFound

\* lines 41-57 after the scrape: every exception but ValueError of int()
\* reaches the outer handler and becomes a 500
match_odds_response(data, id) ==
    IF IntParses(id)
    THEN IF data.tag = "None"
         THEN ServerError("object of type 'NoneType' has no len()")
         ELSE IF 0 <= IntValue(id) /\ IntValue(id) < Len(data.val)
              THEN Resp(200, "match", <<data.val[IntValue(id) + 1]>>, "")
              ELSE NotFound
    ELSE IF data.tag = "None"
         THEN ServerError("'NoneType' object is not iterable")
         ELSE find_by_name(data.val, id)

\* line 34: jsonify(odds_data)
odds_response(data) ==
    IF data.tag = "None" THEN Resp(200, "null", <<>>, "")
    ELSE Resp(200, "array", data.val, "")

\* the values random.uniform(-0.05, 0.05) is drawn from, in 1/10000
CoarseDraws == {-500, 500}
FineDraws == {(k * 1000) \div DrawSteps - 500 : k \in 0..DrawSteps}

-----------------------------------------------------------------------------
(* One request, from its arrival to its response.  Requests share no       *)
(* state, so a behaviour serves one.                                       *)

TimeIdle == raw_times = <<>> /\ match_times = <<>> /\ tpc = "off"
PredIdle == pred_in = [home_team |-> <<>>, away_team |-> <<>>, odds |-> None]
            /\ prediction = [tag |-> "none", value |-> <<>>] /\ ppc = "off"
ReqIdle == /\ SELENIUM_AVAILABLE = FALSE /\ pc = "off" /\ endpoint = "none"
           /\ match_id = <<>> /\ use_selenium = FALSE /\ driver = "none"
           /\ fetched = "none" /\ soup = NoSoup /\ lists = NoLists
           /\ odds_data = Unset /\ idx = 0 /\ response = NoResponse

Init ==
    /\ SELENIUM_AVAILABLE \in BOOLEAN
    /\ pc = "idle"
    /\ endpoint = "none"
    /\ match_id = <<>>
    /\ use_selenium = FALSE
    /\ driver = "none"
    /\ fetched = "none"
    /\ soup = NoSoup
    /\ lists = NoLists
    /\ odds_data = Unset
    /\ idx = 0
    /\ response = NoResponse
    /\ TimeIdle
    /\ PredIdle

\* a request arrives; its handler calls scrape_sportpesa (lines 33, 42, 63),
\* which decides the strategy (line 82) from the import flag and the
\* RUNNING_IN_CLOUD environment variable
StartRequest ==
    /\ pc = "idle"
    /\ \E ep \in Endpoints, cloud \in BOOLEAN :
         \E id \in IF ep = "match" THEN MatchIds ELSE {<<>>} :
            /\ endpoint' = ep
            /\ match_id' = id
            /\ use_selenium' = (SELENIUM_AVAILABLE /\ ~cloud)
            /\ pc' = IF SELENIUM_AVAILABLE /\ ~cloud THEN "selenium" ELSE "requests"
    /\ UNCHANGED <<SELENIUM_AVAILABLE, driver, fetched, soup, lists, odds_data,
                   idx, response>>
    /\ UNCHANGED <<timeVars, predVars>>

\* lines 88-95 raise before a driver exists (options, driver download,
\* browser start); line 106 catches and clears use_selenium
SeleniumStartRaises ==
    /\ pc = "selenium"
    /\ use_selenium' = FALSE
    /\ pc' = "requests"
    /\ UNCHANGED <<SELENIUM_AVAILABLE, endpoint, match_id, driver, fetched, soup,
                   lists, odds_data, idx, response>>
    /\ UNCHANGED <<timeVars, predVars>>

\* the driver started (line 94) and line 98, 100 or 104 raises; line 106
\* catches, and nothing on that path calls driver.quit()
SeleniumRaisesAfterStart ==
    /\ pc = "selenium"
    /\ \E at \in {"get", "execute_script", "page_source"} :
         /\ driver' = "running"
         /\ use_selenium' = FALSE
         /\ pc' = "requests"
    /\ UNCHANGED <<SELENIUM_AVAILABLE, endpoint, match_id, fetched, soup,
                   lists, odds_data, idx, response>>
    /\ UNCHANGED <<timeVars, predVars>>

\* lines 94-105 all succeed: soup is bound, the driver quit.  use_selenium
\* is still true, so the block of line 110 is skipped and the function
\* ends without a return statement: its value is None
SeleniumOk ==
    /\ pc = "selenium"
    /\ \E page \in Pages : soup' = page
    /\ driver' = "quit"
    /\ fetched' = "browser"
    /\ odds_data' = NoneValue
    /\ pc' = "respond"
    /\ UNCHANGED <<SELENIUM_AVAILABLE, endpoint, match_id, use_selenium,
                   lists, idx, response>>
    /\ UNCHANGED <<timeVars, predVars>>

\* line 115 raises: the except clause of line 181 returns the mock data
HttpRaises ==
    /\ pc = "requests"
    /\ ~use_selenium
    /\ fetched' = "http_failed"
    /\ odds_data' = scrape_except
    /\ pc' = "respond"
    /\ UNCHANGED <<SELENIUM_AVAILABLE, endpoint, match_id, use_selenium, driver,
                   soup, lists, idx, response>>
    /\ UNCHANGED <<timeVars, predVars>>

\* lines 115-116 succeed
HttpOk ==
    /\ pc = "requests"
    /\ ~use_selenium
    /\ \E page \in Pages : soup' = page
    /\ fetched' = "http"
    /\ pc' = "extract"
    /\ UNCHANGED <<SELENIUM_AVAILABLE, endpoint, match_id, use_selenium, driver,
                   lists, odds_data, idx, response>>
    /\ UNCHANGED <<timeVars, predVars>>

\* lines 118-179, and lines 181-184 when a float() raises
Extract ==
    /\ pc = "extract"
    /\ lists' = ExtractLists(soup)
    /\ odds_data' = IF BuildRaises(ExtractLists(soup)) THEN scrape_except
                    ELSE ListValue(build_results(ExtractLists(soup)))
    /\ pc' = "respond"
    /\ UNCHANGED <<SELENIUM_AVAILABLE, endpoint, match_id, use_selenium, driver,
                   fetched, soup, idx, response>>
    /\ UNCHANGED <<timeVars, predVars>>

\* get_odds, lines 34-36
GetOdds ==
    /\ pc = "respond"
    /\ endpoint = "odds"
    /\ response' = odds_response(odds_data)
    /\ pc' = "done"
    /\ UNCHANGED <<SELENIUM_AVAILABLE, endpoint, match_id, use_selenium, driver,
                   fetched, soup, lists, odds_data, idx>>
    /\ UNCHANGED <<timeVars, predVars>>

\* get_match_odds, lines 43-57
GetMatchOdds ==
    /\ pc = "respond"
    /\ endpoint = "match"
    /\ response' = match_odds_response(odds_data, match_id)
    /\ pc' = "done"
    /\ UNCHANGED <<SELENIUM_AVAILABLE, endpoint, match_id, use_selenium, driver,
                   fetched, soup, lists, odds_data, idx>>
    /\ UNCHANGED <<timeVars, predVars>>

\* get_predictions, line 64 over None: the for statement raises TypeError
PredictionsOverNone ==
    /\ pc = "respond"
    /\ endpoint = "predictions"
    /\ odds_data.tag = "None"
    /\ response' = ServerError("'NoneType' object is not iterable")
    /\ pc' = "done"
    /\ UNCHANGED <<SELENIUM_AVAILABLE, endpoint, match_id, use_selenium, driver,
                   fetched, soup, lists, odds_data, idx>>
    /\ UNCHANGED <<timeVars, predVars>>

\* get_predictions, lines 64-71: one iteration of the loop.  A division by
\* zero inside the predictor reaches line 74 and ends the request
PredictOne ==
    /\ pc = "respond"
    /\ endpoint = "predictions"
    /\ odds_data.tag = "list"
    /\ idx < Len(odds_data.val)
    /\ LET match == odds_data.val[idx + 1]
           odds == Some(match.full_time_odds)
       IN  IF OddsDivideByZero(odds)
           THEN /\ response' = ServerError("float division by zero")
                /\ pc' = "done"
                /\ UNCHANGED <<odds_data, idx>>
           ELSE /\ \E r \in CoarseDraws \X CoarseDraws \X CoarseDraws :
                     odds_data' = ListValue(
                        [odds_data.val EXCEPT ![idx + 1] =
                            match @@ [prediction |->
                                predict_match_outcome(match.teams[1], match.teams[2],
                                                      odds, r)]])
                /\ idx' = idx + 1
                /\ UNCHANGED <<pc, response>>
    /\ UNCHANGED <<SELENIUM_AVAILABLE, endpoint, match_id, use_selenium, driver,
                   fetched, soup, lists>>
    /\ UNCHANGED <<timeVars, predVars>>

\* get_predictions, line 73
PredictionsReturn ==
    /\ pc = "respond"
    /\ endpoint = "predictions"
    /\ odds_data.tag = "list"
    /\ idx = Len(odds_data.val)
    /\ response' = Resp(200, "array", odds_data.val, "")
    /\ pc' = "done"
    /\ UNCHANGED <<SELENIUM_AVAILABLE, endpoint, match_id, use_selenium, driver,
                   fetched, soup, lists, odds_data, idx>>
    /\ UNCHANGED <<timeVars, predVars>>

Next ==
    \/ StartRequest
    \/ SeleniumStartRaises
    \/ SeleniumRaisesAfterStart
    \/ SeleniumOk
    \/ HttpRaises
    \/ HttpOk
    \/ Extract
    \/ GetOdds
    \/ GetMatchOdds
    \/ PredictionsOverNone
    \/ PredictOne
    \/ PredictionsReturn

Spec == Init /\ [][Next]_vars

-----------------------------------------------------------------------------
(* The timestamp filter of line 125 on its own *)

TimeBase == RowTime(0)
TimeCandidates ==
    {RowTime(0), RowTime(1), <<>>, <<"L", "i", "v", "e">>}
    \cup {[TimeBase EXCEPT ![k] = "x"] : k \in 1..Len(TimeBase)}
    \cup {<<"x">> \o TimeBase, TimeBase \o <<"0">>, TimeBase \o <<" ", "E", "T">>,
          SubSeq(TimeBase, 1, Len(TimeBase) - 1)}

RECURSIVE SeqsUpTo(_, _)
\* the sequences over S of length at most n
SeqsUpTo(S, n) ==
    IF n = 0 THEN {<<>>}
    ELSE SeqsUpTo(S, n - 1)
         \cup {Append(q, x) : q \in {p \in SeqsUpTo(S, n - 1) : Len(p) = n - 1}, x \in S}

TimeInit ==
    /\ raw_times \in SeqsUpTo(TimeCandidates, MaxCands)
    /\ match_times = <<>>
    /\ tpc = "start"
    /\ ReqIdle
    /\ PredIdle

FilterTimes ==
    /\ tpc = "start"
    /\ match_times' = filter_times(raw_times)
    /\ tpc' = "done"
    /\ UNCHANGED raw_times
    /\ UNCHANGED <<reqVars, predVars>>

TimeNext == FilterTimes

TimeSpec == TimeInit /\ [][TimeNext]_vars

-----------------------------------------------------------------------------
(* The predictor on its own *)

PredTeams == {Everton, Arsenal, GorMahia, Chelsea, Wolves, Tottenham, ManchesterUnited}
Odds3(h, d, a) == Some([home |-> h, draw |-> d, away |-> a])
PredOdds ==
    { None,
      Odds3(Some(245), Some(340), Some(285)),
      Odds3(Some(110), Some(900), Some(2500)),
      Odds3(Some(220), Some(320), None),
      Odds3(Some(0), Some(320), Some(340)) }

PredInit ==
    /\ pred_in \in [home_team : PredTeams, away_team : PredTeams, odds : PredOdds]
    /\ prediction = [tag |-> "none", value |-> <<>>]
    /\ ppc = "start"
    /\ ReqIdle
    /\ TimeIdle

\* one call of predict_match_outcome
Predict ==
    /\ ppc = "start"
    /\ IF OddsDivideByZero(pred_in.odds)
       THEN prediction' = [tag |-> "ZeroDivisionError", value |-> <<>>]
       ELSE \E r \in FineDraws \X FineDraws \X FineDraws :
               prediction' = [tag |-> "returned",
                              value |-> <<predict_match_outcome(
                                  pred_in.home_team, pred_in.away_team, pred_in.odds, r)>>]
    /\ ppc' = "done"
    /\ UNCHANGED pred_in
    /\ UNCHANGED <<reqVars, timeVars>>

PredNext == Predict

PredSpec == PredInit /\ [][PredNext]_vars

-----------------------------------------------------------------------------
(* Properties *)

ScrapeEnded == pc \in {"respond", "done"}

\* the record field that market m fills
SecondaryField(rec, m) ==
    IF m = "1x" THEN rec.double_chance["1X"]
    ELSE IF m = "x2" THEN rec.double_chance["X2"]
    ELSE IF m = "12" THEN rec.double_chance["12"]
    ELSE IF m = "over" THEN rec.over_under.over
    ELSE IF m = "under" THEN rec.over_under.under
    ELSE IF m = "yes" THEN rec.btts.yes
    ELSE rec.btts.no

\* C1: after an extraction the result holds exactly min(L_matches, L_ft,
\* L_time) records, and in record i each secondary-market field is null
\* exactly when its own market list has no element at index i.
C1_ResultLengthAndNulls ==
    (ScrapeEnded /\ fetched = "http") =>
        /\ odds_data.tag = "list"
        /\ Len(odds_data.val) = Min3(Len(lists.matches), Len(lists.full_time_grouped),
                                     Len(lists.match_times))
        /\ \A i \in 1..Len(odds_data.val) : \A m \in MarketSet :
              (SecondaryField(odds_data.val[i], m) = None) <=> (i > Len(lists.mkt[m]))

MockLabels == << match_label(<<ManchesterUnited, Liverpool>>),
                 match_label(<<Arsenal, Chelsea>>),
                 match_label(<<Barcelona, RealMadrid>>) >>

IntIds == { <<<<"0">>, 0>>, <<<<"1">>, 1>>, <<<<"2">>, 2>>, <<<<"7">>, 7>>,
            <<<<"-", "1">>, -1>>, <<<<"+", "1">>, 1>> }
SameLetter(a, b) ==
    a = b \/ \E k \in 1..26 : {a, b} = {UpperCase[k], LowerCase[k]}
\* label contains id, letters compared without case
LabelHas(label, id) ==
    \E off \in 0..(Len(label) - Len(id)) :
        \A j \in 1..Len(id) : SameLetter(label[off + j], id[j])

\* C3: over a scraped list of length n, /api/odds/{id} with an integer id k
\* answers the match at position k (whose id is k) when 0 <= k < n and 404
\* "Match not found" otherwise; with any other id it answers the first
\* match whose label contains the id without regard to case, and 404 when
\* there is none.  On the mock data 0 is Manchester United vs Liverpool,
\* arsenal is Arsenal vs Chelsea and nonexistent is 404.
C3_MatchLookup ==
    (pc = "done" /\ endpoint = "match" /\ odds_data.tag = "list") =>
        LET list == odds_data.val
            n == Len(list)
            hits == {j \in 1..n : LabelHas(list[j].match, match_id)}
        IN  /\ \A e \in IntIds : e[1] = match_id =>
                 IF 0 <= e[2] /\ e[2] < n
                 THEN /\ response.status = 200
                      /\ response.data = <<list[e[2] + 1]>>
                      /\ response.data[1].id = e[2]
                 ELSE response.status = 404 /\ response.error = "Match not found"
            /\ (\A e \in IntIds : e[1] # match_id) =>
                 IF hits = {}
                 THEN response.status = 404 /\ response.error = "Match not found"
                 ELSE /\ response.status = 200
                      /\ \E j \in hits : /\ \A h \in hits : j <= h
                                         /\ response.data = <<list[j]>>
            /\ (fetched = "http_failed" /\ match_id = <<"0">>) =>
                 /\ response.data[1].match = MockLabels[1]
                 /\ response.data[1].full_time_odds.home = Some(245)
            /\ (fetched = "http_failed" /\ match_id = Lower(Arsenal)) =>
                 response.data[1].match = MockLabels[2]
            /\ (fetched = "http_failed"
                  /\ match_id = <<"n","o","n","e","x","i","s","t","e","n","t">>) =>
                 response.status = 404

\* C3 witness: an upper-case id found a scraped match that is not the
\* first of the list.
C3_Witness ==
    /\ pc = "done" /\ endpoint = "match" /\ fetched = "http"
    /\ match_id = <<"C","H","E","L","S","E","A">>
    /\ Len(odds_data.val) = 2
    /\ response.status = 200
    /\ response.data[1].id = 1

\* C4: for every list the scraper returns, /api/predictions answers 200
\* with the same matches in the same order, each with a prediction.
C4_PredictionsNeverFail ==
    (pc = "done" /\ endpoint = "predictions" /\ odds_data.tag = "list") =>
        /\ response.status = 200
        /\ Len(response.data) = Len(odds_data.val)
        /\ \A k \in 1..Len(response.data) :
              /\ "prediction" \in DOMAIN response.data[k]
              /\ response.data[k].id = k - 1

\* C5: no scrape call ends with a driver that was started and never quit.
C5_DriverAlwaysQuit == ScrapeEnded => driver # "running"

\* C6: when the fetched page has fewer than two team-name elements the
\* scrape result is the three mock matches, never an empty list.
C6_ZeroMatchesFallsBack ==
    (ScrapeEnded /\ fetched = "http" /\ Len(soup.teams) < 2) =>
        /\ odds_data.tag = "list"
        /\ Len(odds_data.val) = 3
        /\ \A k \in 1..3 : odds_data.val[k].match = MockLabels[k]

\* C7: an odds text that does not parse as a number makes only its own
\* field null; the scraped records are all produced, with every other
\* field as usual.
C7_MalformedOddsOnlyNullField ==
    (ScrapeEnded /\ fetched = "http") =>
        /\ odds_data.tag = "list"
        /\ Len(odds_data.val) = Min3(Len(lists.matches), Len(lists.full_time_grouped),
                                     Len(lists.match_times))
        /\ \A i \in 1..Len(odds_data.val) :
              /\ odds_data.val[i].match = lists.matches[i]
              /\ \A m \in {x \in MarketSet : i <= Len(lists.mkt[x])} :
                    SecondaryField(odds_data.val[i], m) =
                        IF FloatParses(lists.mkt[m][i])
                        THEN Some(FloatValue(lists.mkt[m][i])) ELSE None

\* the whole string is a timestamp: the pattern ends where the string ends
re_fullmatch_time(t) ==
    /\ Len(t) = Len(TimePattern)
    /\ \A k \in 1..Len(TimePattern) : ClassMatches(TimePattern[k], t[k])

\* C8: the filter keeps a candidate exactly when the whole string is
\* dd/dd/dd - dd:dd, and keeps the kept strings in source order.
C8_FilterIsFullMatch ==
    tpc = "done" => match_times = SelectSeq(raw_times, re_fullmatch_time)

OutcomePos(o) == CHOOSE k \in 1..3 : Outcomes[k] = o

\* C9: in every prediction returned, most_likely_outcome has the largest
\* reported probability, the earliest of home_win, draw, away_win among
\* equals; confidence is 100 times that probability, within [0, 100]; and
\* outcome_text is "<home> Win", "Draw" or "<away> Win" accordingly.
C9_MostLikelyOutcome ==
    (ppc = "done" /\ prediction.tag = "returned") =>
        LET p == prediction.value[1]
            pr == p.probabilities
            ml == p.most_likely_outcome
        IN  /\ \E k \in 1..3 : Outcomes[k] = ml
            /\ \A k \in 1..3 : pr[Outcomes[k]] <= pr[ml]
            /\ \A k \in 1..3 : pr[Outcomes[k]] = pr[ml] => OutcomePos(ml) <= k
            \* confidence in tenths of a percent, probability in thousandths
            /\ 1000 * p.confidence = 100 * (10 * pr[ml])
            /\ 0 <= p.confidence /\ p.confidence <= 1000
            /\ ml = "home_win" => p.outcome_text = pred_in.home_team \o <<" ","W","i","n">>
            /\ ml = "away_win" => p.outcome_text = pred_in.away_team \o <<" ","W","i","n">>
            /\ ml = "draw" => p.outcome_text = <<"D","r","a","w">>

\* C9 witness: home_win and away_win tie for the largest reported
\* probability and home_win was chosen.
C9_Witness ==
    /\ ppc = "done" /\ prediction.tag = "returned"
    /\ LET p == prediction.value[1]
       IN  /\ p.probabilities["home_win"] = p.probabilities["away_win"]
           /\ p.probabilities["draw"] < p.probabilities["home_win"]
           /\ p.most_likely_outcome = "home_win"

\* C10: a request whose browser fetch succeeded ends with a list of
\* matches: /api/odds answers an array and /api/odds/{id} does not answer
\* 500.
C10_BrowserFetchYieldsMatches ==
    (pc = "done" /\ fetched = "browser") =>
        /\ odds_data.tag = "list"
        /\ endpoint = "odds" => response.kind = "array"
        /\ endpoint = "match" => response.status # 500

=============================================================================
